---- MODULE Spec2Model ----
(***************************************************************************)
(* A model of schema_enforcer: the three click commands of cli.py          *)
(* (validate, schema, ansible) and the validator plugins of                *)
(* schemas/validator.py (BaseValidation, JmesPathModelValidation,          *)
(* is_validator, load_validators).                                         *)
(*                                                                         *)
(* Four specifications share the variables:                                *)
(*   Spec         one invocation of one cli command                        *)
(*   LoadSpec     one call of load_validators                              *)
(*   RuleSpec     calls of JmesPathModelValidation.validate                *)
(*   ResultsSpec  call sequences on one validator's result list            *)
(* Each leaves the variables of the others at their idle values.           *)
(***************************************************************************)
EXTENDS Integers, Sequences, FiniteSets, TLC

VARIABLES
    \* ---- cli.py ----
    cmd,            \* the command invoked: "validate", "schema", "ansible"
    args,           \* the options click hands to the command
    disk,           \* what the collaborators will find: schemas, instances, hosts
    pc,             \* position in the command
    smgr,           \* SchemaManager: [loaded, schemas]
    ifm,            \* InstanceFileManager: [loaded, instances]
    inv,            \* AnsibleInventory: [loaded, hosts]
    idx,            \* position of the outer for loop (instance / host)
    host_name,      \* ansible: host.name of the host being validated
    hostvar,        \* ansible: the host's variables, in dict order
    mapping,        \* ansible: the local `mapping`
    keyidx,         \* ansible: position of `for key, value in hostvar.items()`
    error_exists,   \* the local `error_exists`
    results,        \* every ValidationResult the loops received, in order
    shown,          \* the results given to result.print()
    printed,        \* messages written by error(), print() and sys.exit(str)
    calls,          \* collaborator calls, in order
    exit_status,    \* -1 while running, then the process exit status
    \* ---- schemas/validator.py: load_validators ----
    plugin_dir,     \* the plugin modules pkgutil finds, and the classes they use
    cls_id,         \* class -> the `id` attribute set on the class itself
    validators,     \* the dict `validators`, in insertion order
    load_pc,        \* position in load_validators
    mod_idx,        \* position of `for importer, module_name, _ in ...`
    members,        \* what inspect.getmembers(module, is_validator) returned
    mem_idx,        \* position of `for name, cls in ...`
    log,            \* ids printed as "Duplicate validator name: ..."
    instantiated,   \* the classes cls() was called on, in order
    encountered,    \* every (cls, cls.id) the inner loop went through, in order
    \* ---- schemas/validator.py: the validator classes ----
    self_rule,      \* the validator: id, left, operator, right, error
    self_results,   \* self._results
    recorded,       \* a result was added since __init__ / clear_results
    call            \* the last call made on the validator and its outcome

cli_vars == << cmd, args, disk, pc, smgr, ifm, inv, idx, host_name, hostvar,
               mapping, keyidx, error_exists, results, shown, printed, calls,
               exit_status >>

load_vars == << plugin_dir, cls_id, validators, load_pc, mod_idx, members,
                mem_idx, log, instantiated, encountered >>

plugin_vars == << self_rule, self_results, recorded, call >>

vars == << cli_vars, load_vars, plugin_vars >>

------------------------------------------------------------------------------
(* Bounds of the model.                                                     *)

\* instance files InstanceFileManager may discover
MaxInstances == 2

------------------------------------------------------------------------------
(* Values shared by the commands.                                           *)

\* Python's None, for an option that was not given and for unset locals
None == "None"

\* bool(x) of an option value: None and the empty string are falsy
OptTruthy(x) == x # None /\ x # ""

Range(s) == { s[i] : i \in 1..Len(s) }

RECURSIVE Concat(_)
Concat(ss) == IF ss = << >> THEN << >> ELSE Head(ss) \o Concat(Tail(ss))

RECURSIVE SelectSeqBy(_, _)
\* the elements of s whose .passed is in keep, in order
SelectSeqBy(s, keep) ==
    IF s = << >> THEN << >>
    ELSE (IF Head(s).passed \in keep THEN << Head(s) >> ELSE << >>)
         \o SelectSeqBy(Tail(s), keep)

\* the schema ids a run may find on disk, in SchemaManager's dict order
SchemaIds == << "schemas/dns_servers", "schemas/interfaces" >>

\* what SchemaManager(config=...) may load: nothing, one schema, both
SchemaLoads == { << >>, << SchemaIds[1] >>, SchemaIds }

\* the reserved host variable
MAPPING_KEY == "jsonschema_mapping"

MSG_NO_SCHEMAS == "No schemas were loaded"
MSG_NO_INSTANCES == "No instance files were found to validate"
MSG_ALL_PASSED == "ALL SCHEMA VALIDATION CHECKS PASSED"
MSG_NEED_SCHEMA == "Please indicate the name of the schema you'd like to generate the invalid data for using --schema"

\* a ValidationResult as a collaborator yields it
Result(schema_id, passed) == [ schema_id |-> schema_id, passed |-> passed ]

\* lines 80-82 / 255-257: the loop stamps the result with what was checked
Stamp(r, type, name, location) ==
    [ schema_id |-> r.schema_id, passed |-> r.passed, instance_type |-> type,
      instance_name |-> name, instance_location |-> location ]

StampAll(rs, type, name, location) ==
    [ i \in 1..Len(rs) |-> Stamp(rs[i], type, name, location) ]

\* lines 84-89 / 259-264: error_exists after the results rs went by
fold_error_exists(before, rs) ==
    before \/ \E i \in 1..Len(rs) : ~rs[i].passed

\* lines 84-89 / 259-264: the results handed to result.print()
to_print(rs, show_pass) ==
    SelectSeqBy(rs, IF show_pass THEN {TRUE, FALSE} ELSE {FALSE})

\* a faulty variant of no_schemas: the emptiness check left out
no_schemas_mutant(s) == FALSE
\* lines 59, 141, 214: `if not smgr.schemas`
no_schemas(s) == s.schemas = << >>

\* line 68: `if not ifm.instances`
no_instances(m) == m.instances = << >>

------------------------------------------------------------------------------
(* The inputs of one invocation.                                            *)

InstanceFiles == << "a.yml", "b.yml", "c.yml", "d.yml" >>

\* what instance.validate(smgr, strict) may yield for one instance file:
\* nothing (no schema applies), one PASS, one FAIL, or a mix in either order
Outcomes ==
    { << >>,
      << Result(SchemaIds[1], TRUE) >>,
      << Result(SchemaIds[1], FALSE) >>,
      << Result(SchemaIds[1], TRUE), Result(SchemaIds[2], FALSE) >>,
      << Result(SchemaIds[1], FALSE), Result(SchemaIds[2], TRUE) >> }

Instance(i, outcome) ==
    [ filename |-> InstanceFiles[i], path |-> "hostvars", outcome |-> outcome ]

InstanceLists ==
    UNION { { [ i \in 1..n |-> Instance(i, f[i]) ] : f \in [ 1..n -> Outcomes ] }
            : n \in 0..MaxInstances }

\* a host variable value, by what the schemas make of it
VarValues == { "good", "bad" }
VarKeys == << "dns_servers", "interfaces" >>

\* one entry of a jsonschema_mapping: variable key -> list of schema ids
MapEntry(key, ids) == [ key |-> key, ids |-> ids ]

\* a jsonschema_mapping value: its entries in dict order; `defined` is FALSE
\* for Python's None (the host carries no such variable)
Mapping(entries) == [ defined |-> TRUE, entries |-> entries ]
NoMapping == [ defined |-> FALSE, entries |-> << >> ]

\* the jsonschema_mapping values a host may carry
Mappings ==
    { NoMapping,
      Mapping(<< >>),
      Mapping(<< MapEntry(VarKeys[1], << SchemaIds[1] >>) >>),
      Mapping(<< MapEntry(VarKeys[1], << >>) >>),
      Mapping(<< MapEntry(VarKeys[1], << SchemaIds[2], SchemaIds[2] >>) >>),
      Mapping(<< MapEntry(VarKeys[1], SchemaIds),
                 MapEntry(VarKeys[2], << SchemaIds[2] >>) >>) }

Var(key, value, map) == [ key |-> key, value |-> value, map |-> map ]

\* inv.get_clean_host_vars(host): the reserved key (when defined) first, then
\* the variables present, in dict order
HostVars(m, v1, v2) ==
    (IF ~m.defined THEN << >> ELSE << Var(MAPPING_KEY, "mapping", m) >>)
    \o (IF v1 = None THEN << >> ELSE << Var(VarKeys[1], v1, NoMapping) >>)
    \o (IF v2 = None THEN << >> ELSE << Var(VarKeys[2], v2, NoMapping) >>)

HostNames == << "leaf1", "leaf2" >>

HostsNamed(name) ==
    { [ name |-> name, vars |-> HostVars(m, v1, v2) ] :
        m \in Mappings, v1 \in VarValues \cup {None}, v2 \in VarValues \cup {None} }

\* inv.get_hosts_containing(): no host, either host, or both in inventory order
Inventories ==
    { << >> }
    \cup { << h >> : h \in HostsNamed(HostNames[1]) \cup HostsNamed(HostNames[2]) }
    \cup { << h1, h2 >> : h1 \in HostsNamed(HostNames[1]), h2 \in HostsNamed(HostNames[2]) }

NoArgs ==
    [ show_pass |-> FALSE, show_checks |-> FALSE, strict |-> FALSE,
      check |-> FALSE, generate_invalid |-> FALSE, list_schemas |-> FALSE,
      schema |-> None, inventory |-> None, limit |-> None ]

ValidateArgs ==
    { [ NoArgs EXCEPT !.show_pass = a, !.show_checks = b, !.strict = c ] :
        a \in BOOLEAN, b \in BOOLEAN, c \in BOOLEAN }

SchemaArgs ==
    { [ NoArgs EXCEPT !.check = a, !.generate_invalid = b, !.list_schemas = c,
                      !.schema = d ] :
        a \in BOOLEAN, b \in BOOLEAN, c \in BOOLEAN,
        d \in { None, "", "dns_servers", "interfaces" } }

AnsibleArgs ==
    { [ NoArgs EXCEPT !.show_pass = a, !.inventory = b, !.limit = c ] :
        a \in BOOLEAN, b \in { None, "inventory.ini" },
        c \in { None, "", HostNames[1], "spine9" } }

NoDisk == [ schemas |-> << >>, instances |-> << >>, hosts |-> << >> ]

Unloaded == [ loaded |-> FALSE, schemas |-> << >>, instances |-> << >>, hosts |-> << >> ]

CliIdle ==
    /\ pc = "start"
    /\ smgr = Unloaded
    /\ ifm = Unloaded
    /\ inv = Unloaded
    /\ idx = 0
    /\ host_name = None
    /\ hostvar = << >>
    /\ mapping = NoMapping
    /\ keyidx = 0
    /\ error_exists = FALSE
    /\ results = << >>
    /\ shown = << >>
    /\ printed = << >>
    /\ calls = << >>
    /\ exit_status = -1

\* no command runs: the cli variables of the other specifications
CliIdleAll ==
    /\ cmd = None
    /\ args = NoArgs
    /\ disk = NoDisk
    /\ CliIdle

CliInit ==
    /\ cmd \in { "validate", "schema", "ansible" }
    /\ args \in CASE cmd = "validate" -> ValidateArgs
                  [] cmd = "schema" -> SchemaArgs
                  [] OTHER -> AnsibleArgs
    /\ disk \in CASE cmd = "validate" ->
                        { [ NoDisk EXCEPT !.schemas = s, !.instances = i ] :
                            s \in SchemaLoads, i \in InstanceLists }
                  [] cmd = "schema" ->
                        { [ NoDisk EXCEPT !.schemas = s ] : s \in SchemaLoads }
                  [] OTHER ->
                        { [ NoDisk EXCEPT !.schemas = s, !.hosts = h ] :
                            s \in SchemaLoads, h \in Inventories }
    /\ CliIdle

------------------------------------------------------------------------------
(* Steps shared by the commands.                                            *)

Running == exit_status = -1

\* sys.exit(code), or falling off the end of the command (code 0)
Exit(code) ==
    /\ exit_status' = code
    /\ pc' = "exited"

\* an exception nothing catches: the traceback is printed, the status is 1
Raise(exception) ==
    /\ printed' = Append(printed, exception)
    /\ exit_status' = 1
    /\ pc' = "raised"

loop_vars == << idx, host_name, hostvar, mapping, keyidx, error_exists,
                results, shown >>

\* config.load(); smgr = SchemaManager(...); if not smgr.schemas: error, exit 1
LoadSchemas(command, config_call, next_pc) ==
    /\ Running
    /\ cmd = command
    /\ pc = "start"
    /\ smgr' = [ Unloaded EXCEPT !.loaded = TRUE, !.schemas = disk.schemas ]
    /\ calls' = calls \o << config_call, "SchemaManager" >>
    /\ IF no_schemas(smgr')
       THEN /\ printed' = Append(printed, MSG_NO_SCHEMAS)
            /\ Exit(1)
       ELSE /\ printed' = printed
            /\ pc' = next_pc
            /\ exit_status' = exit_status
    /\ UNCHANGED << load_vars, plugin_vars, cmd, args, disk, ifm, inv, loop_vars >>

\* lines 91-94 / 266-269: the verdict of the run
Verdict ==
    /\ pc' = "verdict"
    /\ IF ~error_exists
       THEN /\ printed' = Append(printed, MSG_ALL_PASSED)
            /\ exit_status' = 0
       ELSE /\ printed' = printed
            /\ exit_status' = 1

------------------------------------------------------------------------------
(* validate                                                                 *)

\* lines 52-61
validate_load_schemas == LoadSchemas("validate", "config.load", "load_instances")

\* lines 66-76
validate_load_instances ==
    /\ Running
    /\ cmd = "validate"
    /\ pc = "load_instances"
    /\ ifm' = [ Unloaded EXCEPT !.loaded = TRUE, !.instances = disk.instances ]
    /\ IF no_instances(ifm')
       THEN /\ printed' = Append(printed, MSG_NO_INSTANCES)
            /\ calls' = Append(calls, "InstanceFileManager")
            /\ Exit(1)
            /\ UNCHANGED << idx, error_exists >>
       ELSE IF args.show_checks
       THEN /\ calls' = calls \o << "InstanceFileManager", "print_schema_mapping" >>
            /\ printed' = printed
            /\ Exit(0)
            /\ UNCHANGED << idx, error_exists >>
       ELSE /\ calls' = Append(calls, "InstanceFileManager")
            /\ printed' = printed
            /\ error_exists' = FALSE
            /\ idx' = 1
            /\ pc' = "instance_loop"
            /\ exit_status' = exit_status
    /\ UNCHANGED << load_vars, plugin_vars, cmd, args, disk, smgr, inv, host_name, hostvar, mapping,
                    keyidx, results, shown >>

\* lines 77-89: one turn of `for instance in ifm.instances`
validate_instance ==
    /\ Running
    /\ cmd = "validate"
    /\ pc = "instance_loop"
    /\ idx <= Len(ifm.instances)
    /\ LET instance == ifm.instances[idx]
           rs == StampAll(instance.outcome, "FILE", instance.filename, instance.path)
       IN /\ results' = results \o rs
          /\ error_exists' = fold_error_exists(error_exists, rs)
          /\ shown' = shown \o to_print(rs, args.show_pass)
    /\ calls' = Append(calls, "instance.validate")
    /\ idx' = idx + 1
    /\ UNCHANGED << load_vars, plugin_vars, cmd, args, disk, pc, smgr, ifm, inv, host_name, hostvar,
                    mapping, keyidx, printed, exit_status >>

\* lines 91-94
validate_end ==
    /\ Running
    /\ cmd = "validate"
    /\ pc = "instance_loop"
    /\ idx > Len(ifm.instances)
    /\ Verdict
    /\ UNCHANGED << load_vars, plugin_vars, cmd, args, disk, smgr, ifm, inv, loop_vars, calls >>

------------------------------------------------------------------------------
(* schema                                                                   *)

\* The name `schema` as the body of the command reads it (lines 150, 154).
\* The function takes (check, generate_invalid, list_schemas): the value of
\* --schema is no parameter of it, so `schema` is the module-level name, the
\* click command object the decorators of lines 122-124 produced.
COMMAND_OBJECT == "<Command schema>"
schema_in_body(a) == COMMAND_OBJECT

\* lines 122-124: click calls the callback with one keyword argument per
\* declared option, --schema among them, and the function takes no `schema`:
\* the call raises TypeError before the body runs.  A caller that passes the
\* three declared parameters alone reaches the body (schema_load_schemas).
schema_invoke_with_option ==
    /\ Running
    /\ cmd = "schema"
    /\ pc = "start"
    /\ Raise("TypeError")
    /\ UNCHANGED << load_vars, plugin_vars, cmd, args, disk, smgr, ifm, inv,
                    loop_vars, calls >>

\* lines 134-143
schema_load_schemas == LoadSchemas("schema", "config.load", "dispatch")

\* lines 145-147
schema_list ==
    /\ Running
    /\ cmd = "schema"
    /\ pc = "dispatch"
    /\ args.list_schemas
    /\ calls' = Append(calls, "print_schemas_list")
    /\ Exit(0)
    /\ UNCHANGED << load_vars, plugin_vars, cmd, args, disk, smgr, ifm, inv, loop_vars, printed >>

\* lines 149-155
schema_generate_invalid ==
    /\ Running
    /\ cmd = "schema"
    /\ pc = "dispatch"
    /\ ~args.list_schemas
    /\ args.generate_invalid
    /\ IF ~OptTruthy(schema_in_body(args))
       THEN /\ printed' = Append(printed, MSG_NEED_SCHEMA)
            /\ calls' = calls
            /\ Exit(1)
       ELSE /\ printed' = printed
            /\ calls' = calls \o << "generate_invalid_tests_expected", schema_in_body(args) >>
            /\ Exit(0)
    /\ UNCHANGED << load_vars, plugin_vars, cmd, args, disk, smgr, ifm, inv, loop_vars >>

\* lines 157-159
schema_check ==
    /\ Running
    /\ cmd = "schema"
    /\ pc = "dispatch"
    /\ ~args.list_schemas
    /\ ~args.generate_invalid
    /\ args.check
    /\ calls' = Append(calls, "test_schemas")
    /\ Exit(0)
    /\ UNCHANGED << load_vars, plugin_vars, cmd, args, disk, smgr, ifm, inv, loop_vars, printed >>

\* no flag given: the command returns
schema_return ==
    /\ Running
    /\ cmd = "schema"
    /\ pc = "dispatch"
    /\ ~args.list_schemas
    /\ ~args.generate_invalid
    /\ ~args.check
    /\ Exit(0)
    /\ UNCHANGED << load_vars, plugin_vars, cmd, args, disk, smgr, ifm, inv, loop_vars, printed, calls >>

------------------------------------------------------------------------------
(* ansible                                                                  *)

RECURSIVE Dedup(_, _)
\* the keys of a dict built from the ids in order: each id once
Dedup(ids, seen) ==
    IF ids = << >> THEN << >>
    ELSE IF Head(ids) \in seen THEN Dedup(Tail(ids), seen)
    ELSE << Head(ids) >> \o Dedup(Tail(ids), seen \cup { Head(ids) })

\* bool(mapping): None and the empty dict are falsy
mapping_truthy(m) == m.defined /\ m.entries # << >>

\* key in mapping.keys()
in_mapping(m, key) == \E i \in 1..Len(m.entries) : m.entries[i].key = key

\* mapping[key]
mapping_get(m, key) ==
    m.entries[CHOOSE i \in 1..Len(m.entries) : m.entries[i].key = key].ids

\* a faulty variant of applicable_schemas: the mapping is ignored
all_schemas_mutant(m, key, schemas) == [ raises |-> FALSE, ids |-> schemas ]
\* lines 247-250: the schemas one variable is validated against; the dict
\* comprehension raises KeyError on a listed id that smgr.schemas lacks
applicable_schemas(m, key, schemas) ==
    IF mapping_truthy(m) /\ in_mapping(m, key)
    THEN [ raises |-> \E id \in Range(mapping_get(m, key)) : id \notin Range(schemas),
           ids |-> Dedup(mapping_get(m, key), {}) ]
    ELSE [ raises |-> FALSE, ids |-> schemas ]

\* schema_obj.validate({key: value}) of the collaborator JsonSchema: a schema
\* rejects the one-key document when it is the schema of that key and the
\* value is bad; either way it yields one result
SchemaOf(key) == SchemaIds[CHOOSE i \in 1..Len(VarKeys) : VarKeys[i] = key]
schema_validate(schema_id, key, value) ==
    << Result(schema_id, ~(value = "bad" /\ SchemaOf(key) = schema_id)) >>

RECURSIVE without_key(_, _)
\* line 241: del hostvar["jsonschema_mapping"]
without_key(hv, key) ==
    IF hv = << >> THEN << >>
    ELSE (IF Head(hv).key = key THEN << >> ELSE << Head(hv) >>)
         \o without_key(Tail(hv), key)

\* lines 239-240: the mapping of a host
mapping_of(hv) ==
    IF \E i \in 1..Len(hv) : hv[i].key = MAPPING_KEY
    THEN hv[CHOOSE i \in 1..Len(hv) : hv[i].key = MAPPING_KEY].map
    ELSE NoMapping

\* lines 204-216
ansible_load_schemas ==
    LoadSchemas("ansible",
                IF OptTruthy(args.inventory) THEN "config.load(ansible_inventory)"
                                             ELSE "config.load",
                "load_inventory")

\* lines 223-227
ansible_load_inventory ==
    /\ Running
    /\ cmd = "ansible"
    /\ pc = "load_inventory"
    /\ inv' = [ Unloaded EXCEPT !.loaded = TRUE, !.hosts = disk.hosts ]
    /\ calls' = calls \o << "AnsibleInventory", "get_hosts_containing" >>
    /\ printed' = Append(printed, "Found hosts in the inventory")
    /\ error_exists' = FALSE
    /\ idx' = 1
    /\ pc' = "host_loop"
    /\ UNCHANGED << load_vars, plugin_vars, cmd, args, disk, smgr, ifm, host_name, hostvar, mapping,
                    keyidx, results, shown, exit_status >>

\* lines 229-231: a host the --host limit leaves out
ansible_skip_host ==
    /\ Running
    /\ cmd = "ansible"
    /\ pc = "host_loop"
    /\ idx <= Len(inv.hosts)
    /\ OptTruthy(args.limit) /\ inv.hosts[idx].name # args.limit
    /\ idx' = idx + 1
    /\ UNCHANGED << load_vars, plugin_vars, cmd, args, disk, pc, smgr, ifm, inv, host_name, hostvar,
                    mapping, keyidx, error_exists, results, shown, printed,
                    calls, exit_status >>

\* lines 229-245: the head of one turn of `for host in hosts`
ansible_begin_host ==
    /\ Running
    /\ cmd = "ansible"
    /\ pc = "host_loop"
    /\ idx <= Len(inv.hosts)
    /\ ~(OptTruthy(args.limit) /\ inv.hosts[idx].name # args.limit)
    /\ LET host == inv.hosts[idx]
       IN /\ host_name' = host.name
          /\ mapping' = mapping_of(host.vars)
          /\ hostvar' = IF \E i \in 1..Len(host.vars) : host.vars[i].key = MAPPING_KEY
                        THEN without_key(host.vars, MAPPING_KEY)
                        ELSE host.vars
    /\ calls' = Append(calls, "get_clean_host_vars")
    /\ error_exists' = FALSE
    /\ keyidx' = 1
    /\ pc' = "var_loop"
    /\ UNCHANGED << load_vars, plugin_vars, cmd, args, disk, smgr, ifm, inv, idx, results, shown,
                    printed, exit_status >>

\* the results of validating one variable against the schemas ids, in order
var_results(ids, key, value) ==
    Concat([ i \in 1..Len(ids) |-> schema_validate(ids[i], key, value) ])

\* lines 246-264: one turn of `for key, value in hostvar.items()`
ansible_validate_var ==
    /\ Running
    /\ cmd = "ansible"
    /\ pc = "var_loop"
    /\ keyidx <= Len(hostvar)
    /\ LET key == hostvar[keyidx].key
           value == hostvar[keyidx].value
           applicable == applicable_schemas(mapping, key, smgr.schemas)
           rs == StampAll(var_results(applicable.ids, key, value), "VAR", key, host_name)
       IN IF applicable.raises
          THEN /\ Raise("KeyError")
               /\ UNCHANGED << keyidx, error_exists, results, shown, calls >>
          ELSE /\ results' = results \o rs
               /\ error_exists' = fold_error_exists(error_exists, rs)
               /\ shown' = shown \o to_print(rs, args.show_pass)
               /\ calls' = Append(calls, "schema_obj.validate")
               /\ keyidx' = keyidx + 1
               /\ UNCHANGED << pc, printed, exit_status >>
    /\ UNCHANGED << load_vars, plugin_vars, cmd, args, disk, smgr, ifm, inv, idx, host_name, hostvar,
                    mapping >>

\* the end of `for key, value in hostvar.items()`: on to the next host
ansible_end_host ==
    /\ Running
    /\ cmd = "ansible"
    /\ pc = "var_loop"
    /\ keyidx > Len(hostvar)
    /\ idx' = idx + 1
    /\ pc' = "host_loop"
    /\ UNCHANGED << load_vars, plugin_vars, cmd, args, disk, smgr, ifm, inv, host_name, hostvar,
                    mapping, keyidx, error_exists, results, shown, printed,
                    calls, exit_status >>

\* lines 266-269
ansible_end ==
    /\ Running
    /\ cmd = "ansible"
    /\ pc = "host_loop"
    /\ idx > Len(inv.hosts)
    /\ Verdict
    /\ UNCHANGED << load_vars, plugin_vars, cmd, args, disk, smgr, ifm, inv, loop_vars, calls >>

------------------------------------------------------------------------------
(* load_validators                                                          *)

\* plugin modules pkgutil.iter_modules may find
MaxModules == 2

\* the validator classes plugin authors wrote
PluginClasses == { "Alpha", "Beta", "Gamma" }

\* what every plugin module imports: the base class, a class that is no
\* validator, and a module object
Imports == { "JmesPathModelValidation", "ValidationResult", "jmespath" }

\* every name a module namespace may hold, as sorted() orders them
NameOrder == << "Alpha", "Beta", "Gamma", "JmesPathModelValidation",
                "ValidationResult", "jmespath" >>

Classes == PluginClasses \cup { "BaseValidation", "JmesPathModelValidation",
                                "ValidationResult" }

\* the id two plugin authors may both pick
DeclaredIds == { None, "shared" }

\* the base of a class (its __bases__[0]); parent is the plugin classes' part
ParentOf(parent, c) ==
    IF c \in PluginClasses THEN parent[c]
    ELSE IF c = "JmesPathModelValidation" THEN "BaseValidation"
    ELSE "object"

RECURSIVE Mro(_, _)
\* the method resolution order of c: c, its base, the base of that, ...
Mro(parent, c) ==
    IF c = "object" THEN << >>
    ELSE << c >> \o Mro(parent, ParentOf(parent, c))

\* the class hierarchies: every plugin class derives from the base class or
\* from another plugin class, without a cycle
Hierarchies ==
    { parent \in [ PluginClasses -> PluginClasses \cup { "JmesPathModelValidation" } ] :
        \A c \in PluginClasses :
            /\ parent[c] # c
            /\ parent[c] \in PluginClasses => parent[parent[c]] # c
            /\ ~(\A d \in PluginClasses : parent[d] \in PluginClasses) }

\* lines 63-68
is_validator(parent, obj) ==
    /\ obj \in Classes                               \* else issubclass raises TypeError
    /\ "BaseValidation" \in Range(Mro(parent, obj))
    /\ obj \notin { "JmesPathModelValidation", "BaseValidation" }

\* inspect.getmembers(module, is_validator): the names of the namespace that
\* satisfy the predicate, sorted by name
getmembers(parent, namespace) ==
    SelectSeq(NameOrder, LAMBDA n : n \in namespace /\ is_validator(parent, n))

RECURSIVE first_with_id(_, _)
\* the first class of the mro that has an `id` of its own, or None
first_with_id(own, mro) ==
    IF mro = << >> THEN None
    ELSE IF Head(mro) \in PluginClasses /\ own[Head(mro)] # None THEN Head(mro)
    ELSE first_with_id(own, Tail(mro))

\* line 78: hasattr(cls, "id"), which looks through the bases
hasattr_id(own, parent, c) == first_with_id(own, Mro(parent, c)) # None

\* line 80: cls.id, resolved through the bases
getattr_id(own, parent, c) == own[first_with_id(own, Mro(parent, c))]

\* a key of the dict d
has_key(d, id) == \E i \in 1..Len(d) : d[i].id = id

\* a faulty variant of in_validators: the duplicate check left out
never_duplicate_mutant(d, id) == FALSE
\* line 80: cls.id in validators
in_validators(d, id) == has_key(d, id)

\* line 83: validators[id] = instance of c
dict_set(d, id, c) ==
    IF has_key(d, id)
    THEN [ i \in 1..Len(d) |-> IF d[i].id = id THEN [ id |-> id, cls |-> c ] ELSE d[i] ]
    ELSE Append(d, [ id |-> id, cls |-> c ])

\* the plugin directories: each plugin class is defined in one of the modules
\* or in none of them, each module may fail to import
PluginDirs ==
    { [ modules |-> [ m \in 1..n |->
                        [ broken |-> broken[m],
                          namespace |-> Imports \cup { c \in PluginClasses : where[c] = m } ] ],
        parent |-> parent,
        declared |-> declared ] :
        n \in { MaxModules },
        broken \in [ 1..MaxModules -> BOOLEAN ],
        where \in [ PluginClasses -> 0..MaxModules ],
        parent \in Hierarchies,
        declared \in [ PluginClasses -> DeclaredIds ] }

NoPluginDir ==
    [ modules |-> << >>,
      parent |-> [ c \in PluginClasses |-> "JmesPathModelValidation" ],
      declared |-> [ c \in PluginClasses |-> None ] ]

LoadIdle ==
    /\ plugin_dir = NoPluginDir
    /\ cls_id = NoPluginDir.declared
    /\ validators = << >>
    /\ load_pc = "idle"
    /\ mod_idx = 0
    /\ members = << >>
    /\ mem_idx = 0
    /\ log = << >>
    /\ instantiated = << >>
    /\ encountered = << >>

\* line 73, entering the loop of line 74
LoadInit ==
    /\ plugin_dir \in PluginDirs
    /\ cls_id = plugin_dir.declared
    /\ validators = << >>
    /\ load_pc = "modules"
    /\ mod_idx = 1
    /\ members = << >>
    /\ mem_idx = 0
    /\ log = << >>
    /\ instantiated = << >>
    /\ encountered = << >>

\* lines 74-76: import the next module and list its validator classes; an
\* exception of the import leaves load_validators
load_module ==
    /\ load_pc = "modules"
    /\ mod_idx <= Len(plugin_dir.modules)
    /\ IF plugin_dir.modules[mod_idx].broken
       THEN /\ load_pc' = "raised"
            /\ UNCHANGED << members, mem_idx >>
       ELSE /\ members' = getmembers(plugin_dir.parent, plugin_dir.modules[mod_idx].namespace)
            /\ mem_idx' = 1
            /\ load_pc' = "members"
    /\ UNCHANGED << cli_vars, plugin_vars, plugin_dir, cls_id, validators,
                    mod_idx, log, instantiated, encountered >>

\* lines 76-83: one turn of `for name, cls in inspect.getmembers(...)`
register_class ==
    /\ load_pc = "members"
    /\ mem_idx <= Len(members)
    /\ LET cls == members[mem_idx]
           own == IF ~hasattr_id(cls_id, plugin_dir.parent, cls)
                  THEN [ cls_id EXCEPT ![cls] = cls ]
                  ELSE cls_id
           id == getattr_id(own, plugin_dir.parent, cls)
       IN /\ cls_id' = own
          /\ encountered' = Append(encountered, [ cls |-> cls, id |-> id ])
          /\ IF in_validators(validators, id)
             THEN /\ log' = Append(log, id)
                  /\ UNCHANGED << validators, instantiated >>
             ELSE /\ validators' = dict_set(validators, id, cls)
                  /\ instantiated' = Append(instantiated, cls)
                  /\ log' = log
    /\ mem_idx' = mem_idx + 1
    /\ UNCHANGED << cli_vars, plugin_vars, plugin_dir, load_pc, mod_idx, members >>

\* the inner loop is over: back to line 74
next_module ==
    /\ load_pc = "members"
    /\ mem_idx > Len(members)
    /\ mod_idx' = mod_idx + 1
    /\ load_pc' = "modules"
    /\ UNCHANGED << cli_vars, plugin_vars, plugin_dir, cls_id, validators,
                    members, mem_idx, log, instantiated, encountered >>

\* line 84
return_validators ==
    /\ load_pc = "modules"
    /\ mod_idx > Len(plugin_dir.modules)
    /\ load_pc' = "returned"
    /\ UNCHANGED << cli_vars, plugin_vars, plugin_dir, cls_id, validators,
                    mod_idx, members, mem_idx, log, instantiated, encountered >>

LoadNext ==
    \/ load_module
    \/ register_class
    \/ next_module
    \/ return_validators

------------------------------------------------------------------------------
(* The validator classes.                                                   *)

\* results one validator may accumulate before the caller reads and clears
MaxResults == 3

\* ---- the parsed YAML / JSON values the rules look at ----
\* A value is a record: t its Python type, n the number of an int or bool,
\* s the characters of a str, k the keys and l the items of a dict, l the
\* items of a list.  A str is a sequence of one-character strings.
Val(t, n, s, k, l) == [ t |-> t, n |-> n, s |-> s, k |-> k, l |-> l ]
PyNone == Val("none", 0, << >>, << >>, << >>)
PyBool(b) == Val("bool", IF b THEN 1 ELSE 0, << >>, << >>, << >>)
PyInt(n) == Val("int", n, << >>, << >>, << >>)
PyStr(chars) == Val("str", 0, chars, << >>, << >>)
PyList(items) == Val("list", 0, << >>, << >>, items)
PyDict(keys, items) == Val("dict", 0, << >>, keys, items)

\* bool(v), the gate of line 52
truthy(v) ==
    CASE v.t = "none" -> FALSE
      [] v.t \in { "bool", "int" } -> v.n # 0
      [] v.t = "str" -> v.s # << >>
      [] OTHER -> v.l # << >>

Digits == << "0", "1", "2", "3", "4", "5", "6", "7", "8", "9" >>
IsDigit(c) == \E d \in 1..10 : Digits[d] = c
DigitOf(c) == (CHOOSE d \in 1..10 : Digits[d] = c) - 1

RECURSIVE lstrip(_)
lstrip(s) == IF s # << >> /\ Head(s) = " " THEN lstrip(Tail(s)) ELSE s

RECURSIVE rstrip(_)
rstrip(s) ==
    IF s # << >> /\ s[Len(s)] = " " THEN rstrip(SubSeq(s, 1, Len(s) - 1)) ELSE s

RECURSIVE digits_value(_, _)
digits_value(s, acc) ==
    IF s = << >> THEN acc ELSE digits_value(Tail(s), 10 * acc + DigitOf(Head(s)))

\* int(str): blanks around, an optional sign, then decimal digits only
int_of_str(chars) ==
    LET body == rstrip(lstrip(chars))
        signed == body # << >> /\ Head(body) \in { "-", "+" }
        digits == IF signed THEN Tail(body) ELSE body
    IN IF digits # << >> /\ \A i \in 1..Len(digits) : IsDigit(digits[i])
       THEN [ raises |-> "",
              v |-> IF signed /\ Head(body) = "-" THEN 0 - digits_value(digits, 0)
                    ELSE digits_value(digits, 0) ]
       ELSE [ raises |-> "ValueError", v |-> 0 ]

\* int(v) as the lambdas of lines 43-47 call it
py_int(v) ==
    CASE v.t \in { "int", "bool" } -> [ raises |-> "", v |-> v.n ]
      [] v.t = "str" -> int_of_str(v.s)
      [] OTHER -> [ raises |-> "TypeError", v |-> 0 ]

\* a == b of two values that are no containers: True == 1, 1 != "1"
scalar_eq(a, b) ==
    IF a.t \in { "int", "bool" } /\ b.t \in { "int", "bool" } THEN a.n = b.n ELSE a = b

\* a == b
py_eq(a, b) ==
    IF a.t = "list" /\ b.t = "list"
    THEN /\ Len(a.l) = Len(b.l)
         /\ \A i \in 1..Len(a.l) : scalar_eq(a.l[i], b.l[i])
    ELSE IF a.t = "dict" /\ b.t = "dict"
    THEN /\ a.k = b.k
         /\ Len(a.l) = Len(b.l)
         /\ \A i \in 1..Len(a.l) : scalar_eq(a.l[i], b.l[i])
    ELSE scalar_eq(a, b)

\* needle in haystack, of two str
is_substring(needle, haystack) ==
    \E i \in 0..(Len(haystack) - Len(needle)) :
        SubSeq(haystack, i + 1, i + Len(needle)) = needle

\* v in r
py_in(v, r) ==
    CASE r.t = "str" ->
            IF v.t = "str" THEN [ raises |-> "", v |-> is_substring(v.s, r.s) ]
            ELSE [ raises |-> "TypeError", v |-> FALSE ]
      [] r.t = "list" ->
            [ raises |-> "", v |-> \E i \in 1..Len(r.l) : py_eq(r.l[i], v) ]
      [] r.t = "dict" ->
            IF v.t \in { "list", "dict" } THEN [ raises |-> "TypeError", v |-> FALSE ]
            ELSE [ raises |-> "", v |-> v.t = "str" /\ \E i \in 1..Len(r.k) : r.k[i] = v.s ]
      [] OTHER -> [ raises |-> "TypeError", v |-> FALSE ]

\* a comparison of two coerced integers; int(r) is evaluated before int(v)
int_compare(op, r, v) ==
    LET a == py_int(r)
        b == py_int(v)
    IN IF a.raises # "" THEN [ raises |-> a.raises, v |-> FALSE ]
       ELSE IF b.raises # "" THEN [ raises |-> b.raises, v |-> FALSE ]
       ELSE [ raises |-> "",
              v |-> CASE op = "gt" -> a.v > b.v
                      [] op = "gte" -> a.v >= b.v
                      [] op = "lt" -> a.v < b.v
                      [] OTHER -> a.v <= b.v ]

Operators == { "gt", "gte", "eq", "lt", "lte", "contains" }

\* a faulty variant of operators: gte compares as gt
gte_as_gt_mutant(op, r, v) ==
    CASE op = "eq" -> [ raises |-> "", v |-> py_eq(r, v) ]
      [] op = "contains" -> py_in(v, r)
      [] op = "gte" -> int_compare("gt", r, v)
      [] OTHER -> int_compare(op, r, v)
\* lines 42-49: operators[op](r, v)
operators(op, r, v) ==
    CASE op = "eq" -> [ raises |-> "", v |-> py_eq(r, v) ]
      [] op = "contains" -> py_in(v, r)
      [] OTHER -> int_compare(op, r, v)

RECURSIVE search(_, _)
\* jmespath.search(expression, data) of a dotted path: the value under the
\* keys of the path, None where a key is missing or the value is no dict
search(path, data) ==
    IF path = << >> THEN data
    ELSE IF data.t = "dict" /\ \E i \in 1..Len(data.k) : data.k[i] = Head(path)
    THEN search(Tail(path), data.l[CHOOSE i \in 1..Len(data.k) : data.k[i] = Head(path)])
    ELSE PyNone

\* ---- the values, documents and rules of the model ----
S_abc == << "a", "b", "c" >>
S_b == << "b" >>
S_100 == << "1", "0", "0" >>
S_70 == << " ", "7", "0" >>
K_bgp == << "b", "g", "p" >>
K_asn == << "a", "s", "n" >>
K_peer == << "p", "e", "e", "r" >>

Values ==
    { PyNone, PyBool(FALSE), PyBool(TRUE), PyInt(0), PyInt(100), PyInt(64512),
      PyInt(65000), PyStr(<< >>), PyStr(S_100), PyStr(S_70), PyStr(S_abc),
      PyStr(S_b), PyList(<< >>), PyList(<< PyInt(100), PyStr(S_b) >>),
      PyDict(<< >>, << >>), PyDict(<< S_b >>, << PyInt(0) >>) }

\* a key the document does not hold
Absent == Val("absent", 0, << >>, << >>, << >>)

\* {"bgp": {"asn": asn, "peer": peer}}, without the keys that are Absent
Doc(asn, peer) ==
    PyDict(<< K_bgp >>,
           << PyDict((IF asn = Absent THEN << >> ELSE << K_asn >>)
                     \o (IF peer = Absent THEN << >> ELSE << K_peer >>),
                     (IF asn = Absent THEN << >> ELSE << asn >>)
                     \o (IF peer = Absent THEN << >> ELSE << peer >>)) >>)

Docs ==
    { PyDict(<< >>, << >>) }
    \cup { Doc(asn, peer) : asn \in Values \cup { Absent }, peer \in Values \cup { Absent } }

\* self.right: a literal, or a compiled expression (jmespath.parser.ParsedResult)
Literal(v) == [ parsed |-> FALSE, path |-> << >>, value |-> v ]
Compiled(path) == [ parsed |-> TRUE, path |-> path, value |-> PyNone ]

ERROR == "ASN is out of range"
ValidatorIds == { "CheckAsn", "CheckPeers" }

JmesRule(id, op, right) ==
    [ class |-> "JmesPathModelValidation", id |-> id, left |-> << K_bgp, K_asn >>,
      operator |-> op, right |-> right, error |-> ERROR ]

\* a plugin that derives BaseValidation and does not override validate
BaseRule(id) == [ JmesRule(id, "eq", Literal(PyNone)) EXCEPT !.class = "BaseValidation" ]

Rules ==
    { JmesRule(id, op, right) :
        id \in ValidatorIds, op \in Operators,
        right \in { Literal(v) : v \in Values } \cup { Compiled(<< K_bgp, K_peer >>) } }

\* the rules of the call sequences of ResultsSpec
ResultRules ==
    { JmesRule(id, op, Literal(PyInt(64512))) : id \in ValidatorIds, op \in { "gte", "contains" } }
    \cup { BaseRule(id) : id \in ValidatorIds }

\* the documents of the call sequences of ResultsSpec: asn above, below, not a number
ResultDocs == { Doc(PyInt(65000), Absent), Doc(PyInt(100), Absent), Doc(PyStr(S_abc), Absent) }

\* ValidationResult(result=..., schema_id=..., message=...)
ValidationResult(result, schema_id, message) ==
    [ result |-> result, schema_id |-> schema_id, message |-> message ]

NoCall == [ op |-> "none", data |-> PyNone, message |-> "", raised |-> "",
            before |-> << >>, returned |-> << >> ]

Called(op, data, message, raised, returned) ==
    [ op |-> op, data |-> data, message |-> message, raised |-> raised,
      before |-> self_results, returned |-> returned ]

NoRule == BaseRule("none")

PluginIdle ==
    /\ self_rule = NoRule
    /\ self_results = << >>
    /\ recorded = FALSE
    /\ call = NoCall

\* lines 13-14: __init__ of a validator with one of the rules
PluginInit(rules) ==
    /\ self_rule \in rules
    /\ self_results = << >>
    /\ recorded = FALSE
    /\ call = NoCall

\* lines 16-17
add_validation_error_to(rs, id, message) ==
    Append(rs, ValidationResult("FAIL", id, message))

\* lines 19-20
add_validation_pass_to(rs, id) == Append(rs, ValidationResult("PASS", id, ""))

\* a faulty variant of get_results_of: the PASS is appended every time
always_append_mutant(rs, id) == Append(rs, ValidationResult("PASS", id, ""))
\* lines 24-27: the list get_results returns, which is self._results itself
get_results_of(rs, id) ==
    IF rs = << >> THEN Append(rs, ValidationResult("PASS", id, "")) ELSE rs

\* lines 50-60: what validate does to self._results, and what it raises
validate_outcome(rule, data, rs) ==
    LET lhs == search(rule.left, data)
        rhs == IF rule.right.parsed THEN search(rule.right.path, data)
               ELSE rule.right.value
        cmp == IF truthy(lhs) THEN operators(rule.operator, lhs, rhs)
               ELSE [ raises |-> "", v |-> TRUE ]
    IN IF rule.class = "BaseValidation"
       THEN [ raises |-> "NotImplementedError", results |-> rs ]    \* line 34
       ELSE IF cmp.raises # "" THEN [ raises |-> cmp.raises, results |-> rs ]
       ELSE IF ~cmp.v
       THEN [ raises |-> "", results |-> add_validation_error_to(rs, rule.id, rule.error) ]
       ELSE [ raises |-> "", results |-> rs ]

Validate(docs) ==
    /\ Len(self_results) < MaxResults
    /\ \E data \in docs :
        LET out == validate_outcome(self_rule, data, self_results)
        IN /\ self_results' = out.results
           /\ recorded' = (recorded \/ out.results # self_results)
           /\ call' = Called("validate", data, "", out.raises, << >>)
    /\ UNCHANGED << cli_vars, load_vars, self_rule >>

\* the documents a rule is tried on: every document when the right-hand side
\* is an expression, those without the key it would read when it is a literal
DocsFor(rule) ==
    IF rule.right.parsed THEN Docs
    ELSE { PyDict(<< >>, << >>) } \cup { Doc(asn, Absent) : asn \in Values \cup { Absent } }

\* lines 40-60, on any document; in RuleSpec the caller reads and clears the
\* results, or adds to them, between two validations
validate ==
    /\ call.op # "validate"
    /\ Validate(DocsFor(self_rule))

\* lines 40-60 (line 34 for a plugin without validate), on the sample documents
validate_sample == Validate(ResultDocs)

\* lines 16-17, called by a plugin or its caller
add_validation_error ==
    /\ Len(self_results) < MaxResults
    /\ \E message \in { ERROR, "other" } :
        /\ self_results' = add_validation_error_to(self_results, self_rule.id, message)
        /\ call' = Called("add_validation_error", PyNone, message, "", << >>)
    /\ recorded' = TRUE
    /\ UNCHANGED << cli_vars, load_vars, self_rule >>

\* lines 19-20
add_validation_pass ==
    /\ Len(self_results) < MaxResults
    /\ self_results' = add_validation_pass_to(self_results, self_rule.id)
    /\ call' = Called("add_validation_pass", PyNone, "", "", << >>)
    /\ recorded' = TRUE
    /\ UNCHANGED << cli_vars, load_vars, self_rule >>

\* lines 22-27
get_results ==
    /\ self_results' = get_results_of(self_results, self_rule.id)
    /\ call' = Called("get_results", PyNone, "", "", self_results')
    /\ UNCHANGED << cli_vars, load_vars, self_rule, recorded >>

\* lines 29-30
clear_results ==
    /\ self_results' = << >>
    /\ recorded' = FALSE
    /\ call' = Called("clear_results", PyNone, "", "", << >>)
    /\ UNCHANGED << cli_vars, load_vars, self_rule >>

RuleNext ==
    \/ validate
    \/ add_validation_error
    \/ clear_results

ResultsNext ==
    \/ validate_sample
    \/ add_validation_error
    \/ add_validation_pass
    \/ get_results
    \/ clear_results

------------------------------------------------------------------------------
(* The specifications.                                                      *)

Init == CliInit /\ LoadIdle /\ PluginIdle

Next ==
    \/ validate_load_schemas
    \/ validate_load_instances
    \/ validate_instance
    \/ validate_end
    \/ schema_invoke_with_option
    \/ schema_load_schemas
    \/ schema_list
    \/ schema_generate_invalid
    \/ schema_check
    \/ schema_return
    \/ ansible_load_schemas
    \/ ansible_load_inventory
    \/ ansible_skip_host
    \/ ansible_begin_host
    \/ ansible_validate_var
    \/ ansible_end_host
    \/ ansible_end

Spec == Init /\ [][Next]_vars

LoadSpecInit == LoadInit /\ CliIdleAll /\ PluginIdle

LoadSpec == LoadSpecInit /\ [][LoadNext]_vars

RuleSpecInit == PluginInit(Rules) /\ CliIdleAll /\ LoadIdle

RuleSpec == RuleSpecInit /\ [][RuleNext]_vars

ResultsSpecInit == PluginInit(ResultRules) /\ CliIdleAll /\ LoadIdle

ResultsSpec == ResultsSpecInit /\ [][ResultsNext]_vars

------------------------------------------------------------------------------
(* The claims about the commands (Spec).                                    *)

Failed(rs) == \E i \in 1..Len(rs) : ~rs[i].passed

CountOf(seq, x) == Cardinality({ i \in 1..Len(seq) : seq[i] = x })

\* C1: for validate and ansible, a run that reaches its verdict ends with
\* exit status 1 if and only if some ValidationResult produced during the run
\* did not pass, and "ALL SCHEMA VALIDATION CHECKS PASSED" is printed only
\* when every produced result passed; a FAIL of an earlier instance or host is
\* not cancelled by the PASS results of a later one.
C1_RunFailsIffSomeResultFailed ==
    (pc = "verdict" /\ cmd \in { "validate", "ansible" }) =>
        /\ exit_status = 1 <=> Failed(results)
        /\ CountOf(printed, MSG_ALL_PASSED) > 0 => ~Failed(results)

\* the calls that validate, list, self-test or generate
WorkCalls == { "instance.validate", "schema_obj.validate", "print_schema_mapping",
               "print_schemas_list", "test_schemas", "generate_invalid_tests_expected",
               "InstanceFileManager", "AnsibleInventory", "get_hosts_containing",
               "get_clean_host_vars" }

ValidationCalls == { "instance.validate", "schema_obj.validate" }

\* C2: in every command an empty schema index stops the run with exit status
\* 1 before any instance or inventory is loaded and before any validation,
\* listing, self-test or generation; in validate an empty instance list stops
\* the run with exit status 1 before any instance is validated; in both cases
\* no ValidationResult is produced, and validation starts only after schema
\* loading and instance loading both completed non-empty.
C2_PreflightStops ==
    /\ (smgr.loaded /\ smgr.schemas = << >>) =>
            /\ pc = "exited" /\ exit_status = 1
            /\ ~ifm.loaded /\ ~inv.loaded
            /\ results = << >>
            /\ Range(calls) \cap WorkCalls = {}
            /\ CountOf(printed, MSG_NO_SCHEMAS) = 1
    /\ (ifm.loaded /\ ifm.instances = << >>) =>
            /\ pc = "exited" /\ exit_status = 1
            /\ results = << >>
            /\ Range(calls) \cap ValidationCalls = {}
    /\ (results # << >> \/ Range(calls) \cap ValidationCalls # {}) =>
            /\ smgr.loaded /\ smgr.schemas # << >>
            /\ cmd = "validate" => ifm.loaded /\ ifm.instances # << >>
            /\ cmd = "ansible" => inv.loaded /\ inv.hosts # << >>
    /\ (ifm.loaded \/ inv.loaded) => smgr.loaded /\ smgr.schemas # << >>

\* C2's case: a command whose schema index came back empty was stopped
C2_Witness ==
    /\ cmd = "ansible"
    /\ smgr.loaded /\ smgr.schemas = << >>
    /\ disk.hosts # << >>
    /\ exit_status = 1

\* ---- what the ansible command is to validate, read off the inventory ----

\* the variables of a host but the reserved one
PlainVars(host) == { v \in Range(host.vars) : v.key # MAPPING_KEY }

\* the jsonschema_mapping entries of a host (none when it defines none)
MappingEntries(host) ==
    UNION { Range(v.map.entries) : v \in { w \in Range(host.vars) : w.key = MAPPING_KEY } }

\* the schema ids the mapping of the host lists for the key
Listed(host, key) ==
    UNION { Range(e.ids) : e \in { f \in MappingEntries(host) : f.key = key } }

IsMapped(host, key) == \E e \in MappingEntries(host) : e.key = key

\* the schemas the variable `key` of the host is to be validated against
SchemasFor(host, key) ==
    IF IsMapped(host, key) THEN Listed(host, key) ELSE Range(smgr.schemas)

\* the checks results report: (host, variable, schema)
Checked == { << r.instance_location, r.instance_name, r.schema_id >> : r \in Range(results) }

ToCheck(hosts) ==
    UNION { UNION { { << h.name, v.key, s >> : s \in SchemasFor(h, v.key) } :
                    v \in PlainVars(h) } : h \in hosts }

\* the hosts of the claim as written: all without a limit, else the one named
HostsOfClaim ==
    { h \in Range(inv.hosts) : args.limit = None \/ h.name = args.limit }

\* the hosts line 230 lets through: an empty limit counts as none
HostsOfCode ==
    { h \in Range(inv.hosts) : ~OptTruthy(args.limit) \/ h.name = args.limit }

\* a variable whose mapping entry lists a schema id that is not loaded
ListsUnloaded(host) ==
    \E v \in PlainVars(host) :
        IsMapped(host, v.key) /\ ~(Listed(host, v.key) \subseteq Range(smgr.schemas))

AnsibleOver == cmd = "ansible" /\ inv.loaded /\ pc \in { "verdict", "raised" }

\* C9 as written: when the ansible command is over, the variables validated
\* are those of every host (of the host named by the limit, when one is
\* given), each against the schema ids its jsonschema_mapping lists for it,
\* or against every loaded schema when the mapping has no entry for it; the
\* reserved key is never validated; results name their variable and host.
C9_Original ==
    AnsibleOver =>
        /\ Checked = ToCheck(HostsOfClaim)
        /\ \A r \in Range(results) : r.instance_type = "VAR" /\ r.instance_name # MAPPING_KEY

\* C9 as amended: the same with an empty limit counting as no limit, and on
\* condition that every listed schema id is loaded; when a validated host
\* lists a schema id that is not loaded the run ends in a KeyError at that
\* variable, with no result for it and none after it, and otherwise it does
\* not raise.  Each check is made once.
C9_SchemaResolution ==
    /\ (cmd = "ansible" /\ pc = "verdict") =>
            /\ Checked = ToCheck(HostsOfCode)
            /\ Len(results) = Cardinality(Checked)
            /\ \A h \in HostsOfCode : ~ListsUnloaded(h)
    /\ (cmd = "ansible" /\ pc = "raised") =>
            /\ \E h \in HostsOfCode : h.name = host_name /\ ListsUnloaded(h)
            /\ LET key == hostvar[keyidx].key
               IN /\ \E h \in HostsOfCode :
                        /\ h.name = host_name
                        /\ IsMapped(h, key)
                        /\ ~(Listed(h, key) \subseteq Range(smgr.schemas))
                  /\ \A r \in Range(results) :
                        ~(r.instance_location = host_name /\ r.instance_name = key)
    /\ cmd = "ansible" =>
            /\ Checked \subseteq ToCheck(HostsOfCode)
            /\ Len(results) = Cardinality(Checked)
            /\ \A r \in Range(results) :
                    r.instance_type = "VAR" /\ r.instance_name # MAPPING_KEY

\* C9's case: a run of two hosts is over in which a host's mapping sent one
\* variable to the one schema it lists while both schemas are loaded
C9_Witness ==
    /\ cmd = "ansible" /\ pc = "verdict"
    /\ smgr.schemas = SchemaIds
    /\ Len(inv.hosts) = 2
    /\ \E h \in HostsOfCode :
        /\ Listed(h, VarKeys[1]) = { SchemaIds[1] }
        /\ << h.name, VarKeys[1], SchemaIds[1] >> \in Checked
        /\ << h.name, VarKeys[1], SchemaIds[2] >> \notin Checked
        /\ << h.name, VarKeys[2], SchemaIds[1] >> \in Checked

\* the positions of calls where fixture generation was invoked
Generations == { i \in 1..Len(calls) : calls[i] = "generate_invalid_tests_expected" }

\* C10: the schema command invokes generate_invalid_tests_expected only under
\* --generate-invalid, and then with the schema name given by --schema; with
\* --generate-invalid and no schema name it exits with the "Please indicate
\* the name of the schema" error and generates nothing; --list and --check
\* never generate, and at most one of listing, generation and self-test runs.
C10_GenerationGuard ==
    cmd = "schema" =>
        /\ \A i \in Generations :
                /\ args.generate_invalid
                /\ calls[i + 1] = args.schema
                /\ OptTruthy(args.schema)
        /\ (pc = "exited" /\ smgr.schemas # << >> /\ args.generate_invalid
                /\ ~args.list_schemas /\ ~OptTruthy(args.schema)) =>
                /\ CountOf(printed, MSG_NEED_SCHEMA) = 1
                /\ Generations = {}
        /\ Cardinality(Range(calls) \cap { "print_schemas_list", "test_schemas",
                                           "generate_invalid_tests_expected" }) <= 1
        /\ (Generations # {}) =>
                Range(calls) \cap { "print_schemas_list", "test_schemas" } = {}

------------------------------------------------------------------------------
(* The claims about load_validators (LoadSpec).                             *)

\* the positions of encountered that carry the id
EncountersOf(id) == { i \in 1..Len(encountered) : encountered[i].id = id }

FirstOf(id) == CHOOSE i \in EncountersOf(id) : \A j \in EncountersOf(id) : i <= j

EntriesOf(id) == { i \in 1..Len(validators) : validators[i].id = id }

\* C3: of the classes load_validators went through, those that carry one id
\* leave exactly one entry for it in the registry, an instance of the first
\* of them; each later one is logged once as a duplicate and is not
\* instantiated: the only instances made are those of the registry.
C3_FirstRegistrationWins ==
    /\ \A e \in Range(encountered) :
            /\ Cardinality(EntriesOf(e.id)) = 1
            /\ \A i \in EntriesOf(e.id) : validators[i].cls = encountered[FirstOf(e.id)].cls
            /\ CountOf(log, e.id) = Cardinality(EncountersOf(e.id)) - 1
    /\ Len(validators) = Cardinality({ e.id : e \in Range(encountered) })
    /\ Len(log) + Len(instantiated) = Len(encountered)
    /\ instantiated = [ i \in 1..Len(validators) |-> validators[i].cls ]

\* C3's case: load_validators returned after two different classes with the
\* same id went by
C3_Witness ==
    /\ load_pc = "returned"
    /\ log # << >>
    /\ \E i, j \in 1..Len(encountered) :
        /\ i < j
        /\ encountered[i].id = encountered[j].id
        /\ encountered[i].cls # encountered[j].cls
        /\ encountered[i].id = "shared"

\* the plugin classes of the modules that import
Importable ==
    UNION { Range(getmembers(plugin_dir.parent, plugin_dir.modules[m].namespace)) :
            m \in { n \in 1..Len(plugin_dir.modules) : ~plugin_dir.modules[n].broken } }

Registered(c) == \E i \in 1..Len(validators) : validators[i].cls = c

\* C4: a module that fails to import does not abort discovery: load_validators
\* returns, and the registry holds every validator class of every other
\* module (but one an earlier class took the id of).
C4_BrokenModuleIsolated ==
    load_pc \in { "returned", "raised" } =>
        /\ load_pc = "returned"
        /\ \A c \in Importable :
                Registered(c) \/ \E e \in Range(encountered) : e.cls = c /\ CountOf(log, e.id) > 0

\* the plugin-class ancestors of c
Ancestors(c) == Range(Mro(plugin_dir.parent, c)) \cap (PluginClasses \ { c })

\* C8: a discovered class that declares no id (and inherits none that a base
\* declares) is registered under its own class name, also when it is a
\* subclass of another discovered class without a declared id.
C8_DefaultIdIsClassName ==
    load_pc = "returned" =>
        \A c \in Importable :
            (plugin_dir.declared[c] = None /\ \A a \in Ancestors(c) : plugin_dir.declared[a] = None)
                => \E i \in 1..Len(validators) : validators[i] = [ id |-> c, cls |-> c ]

------------------------------------------------------------------------------
(* The claims about the validator classes (RuleSpec, ResultsSpec).          *)

\* the comparison of an expression rule, where it has a value
Comparable(op, lhs, rhs) ==
    CASE op \in { "gt", "gte", "lt", "lte" } -> py_int(lhs).raises = "" /\ py_int(rhs).raises = ""
      [] op = "eq" -> TRUE
      [] OTHER -> py_in(rhs, lhs).raises = ""

Comparison(op, lhs, rhs) ==
    CASE op = "gt" -> py_int(lhs).v > py_int(rhs).v
      [] op = "gte" -> py_int(lhs).v >= py_int(rhs).v
      [] op = "lt" -> py_int(lhs).v < py_int(rhs).v
      [] op = "lte" -> py_int(lhs).v <= py_int(rhs).v
      [] op = "eq" -> py_eq(lhs, rhs)
      [] OTHER -> py_in(rhs, lhs).v

LhsOfCall == search(self_rule.left, call.data)
RhsOfCall ==
    IF self_rule.right.parsed THEN search(self_rule.right.path, call.data)
    ELSE self_rule.right.value

RuleFailure == ValidationResult("FAIL", self_rule.id, self_rule.error)

\* C5: one call of validate records nothing when the left-hand extraction is
\* absent or falsy; otherwise it records exactly one FAIL, with the rule's
\* error message and id, if and only if the comparison is false, where gt,
\* gte, lt, lte compare the integer coercions, eq the values as extracted,
\* and contains tests membership of the right value in the left one (a
\* comparison that has no value records nothing).
C5_ExpressionRule ==
    call.op = "validate" =>
        IF ~truthy(LhsOfCall)
        THEN self_results = call.before /\ call.raised = ""
        ELSE IF Comparable(self_rule.operator, LhsOfCall, RhsOfCall)
        THEN /\ call.raised = ""
             /\ self_results =
                    IF Comparison(self_rule.operator, LhsOfCall, RhsOfCall)
                    THEN call.before
                    ELSE Append(call.before, RuleFailure)
        ELSE self_results = call.before

\* C5's case: the rule bgp.asn gte 64512 on {"bgp": {"asn": 100}} recorded
\* its message
C5_Witness ==
    /\ call.op = "validate"
    /\ self_rule.operator = "gte"
    /\ self_rule.right = Literal(PyInt(64512))
    /\ call.data = Doc(PyInt(100), Absent)
    /\ call.before = << >>
    /\ self_results = << RuleFailure >>

\* C6: validate returns normally on every document and rule: a violated rule
\* is a FAIL result, never an exception.
C6_ValidateNeverRaises ==
    call.op = "validate" => call.raised = ""

PassOf(id) == ValidationResult("PASS", id, "")

\* C7: get_results never returns an empty list; with nothing recorded since
\* construction or the last clear_results it returns exactly one PASS of the
\* validator's id, and again that same single PASS when called once more;
\* every result it returns carries the validator's id.
C7_AtLeastOneResult ==
    call.op = "get_results" =>
        /\ call.returned # << >>
        /\ call.returned = self_results
        /\ ~recorded => call.returned = << PassOf(self_rule.id) >>
        /\ call.before # << >> => call.returned = call.before
        /\ \A r \in Range(call.returned) : r.schema_id = self_rule.id

\* C7's case: get_results was called again right after it had put the single
\* PASS in place, and returned that one PASS
C7_Witness ==
    /\ call.op = "get_results"
    /\ ~recorded
    /\ call.before = << PassOf(self_rule.id) >>
    /\ call.returned = << PassOf(self_rule.id) >>

====
